---------------------------- MODULE Spec2Model ----------------------------
(***************************************************************************)
(* Model of newspaper/outputformatters.py: the exclusion policy            *)
(* (NodeTextExclusion), the text extractor (NodeTextExtractor) and the     *)
(* cleanup pipeline of OutputFormatter.get_formatted.                      *)
(*                                                                         *)
(* A document is a function from node ids to node records.  A node has a   *)
(* tag, a class set, an id attribute, a gravityScore attribute, its direct *)
(* text, its tail (the text that follows it inside its parent) and the     *)
(* ordered list of its children.  Node 0 is the top node.  Strings are     *)
(* sequences of one-character strings, so that splitting, trimming and     *)
(* searching are computed and not assumed.                                 *)
(***************************************************************************)
EXTENDS Integers, Sequences, FiniteSets, TLC

VARIABLES
    tree,       \* the document: node id -> node record
    arg,        \* the top_node argument the caller passes: None or node 0
    title,      \* the title argument (<<>> stands for None and for '')
    keep,       \* config.keep_article_html
    top_node,   \* OutputFormatter.top_node
    pc,         \* the next step of get_formatted, "idle" outside a call
    calls,      \* number of get_formatted calls started
    text,       \* the local variable text, returned when pc is back to idle
    html,       \* the local variable html
    err,        \* the exception that ended the call, "" when none
    entry,      \* the document as it was when the current call started
    prev        \* the document as it was before the last pass ran

vars == <<tree, arg, title, keep, top_node, pc, calls, text, html, err, entry, prev>>

None == -1
Top == 0

-----------------------------------------------------------------------------
(* Strings                                                                 *)

Whitespace == {" ", "\t", "\n", "\r"}

\* The literal two characters backslash and n: r'\n' in the source.
NewlineMarker == <<"\\", "n">>

\* The literal two characters backslash and r: '\\r' in the source.
ReturnMarker == <<"\\", "r">>

\* '\n\n', two real line breaks.
ParagraphBreak == <<"\n", "\n">>

StartsWithAt(s, p, i) ==
    /\ i + Len(p) - 1 <= Len(s)
    /\ \A k \in 1..Len(p) : s[i + k - 1] = p[k]

\* re.search(p, s) for a literal pattern p.
Contains(s, p) == \E i \in 1..(Len(s) + 1) : StartsWithAt(s, p, i)

RECURSIVE LStrip(_)
LStrip(s) ==
    IF s # <<>> /\ Head(s) \in Whitespace THEN LStrip(Tail(s)) ELSE s

RECURSIVE RStrip(_)
RStrip(s) ==
    IF s # <<>> /\ s[Len(s)] \in Whitespace
    THEN RStrip(SubSeq(s, 1, Len(s) - 1))
    ELSE s

\* str.strip()
Strip(s) == RStrip(LStrip(s))

\* re.sub(r'[\s\t]+', ' ', s): every run of whitespace becomes one space.
RECURSIVE CollapseSpaces(_)
CollapseSpaces(s) ==
    IF s = <<>> THEN <<>>
    ELSE IF Head(s) \in Whitespace
         THEN <<" ">> \o CollapseSpaces(LStrip(s))
         ELSE <<Head(s)>> \o CollapseSpaces(Tail(s))

\* len(s.split()): the number of whitespace-separated words.
RECURSIVE WordCount(_)
WordCount(s) ==
    LET t == LStrip(s)
    IN  IF t = <<>> THEN 0
        ELSE IF Len(t) = 1 \/ t[2] \in Whitespace
             THEN 1 + WordCount(Tail(t))
             ELSE WordCount(Tail(t))

\* s.split(sep) for a non-empty separator: the parts between the
\* occurrences of sep found left to right, empty parts included.
RECURSIVE SplitFrom(_, _, _)
SplitFrom(s, sep, cur) ==
    IF s = <<>> THEN <<cur>>
    ELSE IF StartsWithAt(s, sep, 1)
         THEN <<cur>> \o SplitFrom(SubSeq(s, Len(sep) + 1, Len(s)), sep, <<>>)
         ELSE SplitFrom(Tail(s), sep, Append(cur, Head(s)))

Split(s, sep) == SplitFrom(s, sep, <<>>)

\* sep.join(parts)
RECURSIVE Join(_, _)
Join(parts, sep) ==
    IF parts = <<>> THEN <<>>
    ELSE IF Len(parts) = 1 THEN parts[1]
         ELSE parts[1] \o sep \o Join(Tail(parts), sep)

\* The character references html.unescape resolves here: &amp; and &#92;.
Entities ==
    { [ref |-> <<"&", "a", "m", "p", ";">>, char |-> "&"],
      [ref |-> <<"&", "#", "9", "2", ";">>, char |-> "\\"] }

\* html.unescape: one left-to-right pass replacing each reference.
RECURSIVE unescape(_)
unescape(s) ==
    IF s = <<>> THEN <<>>
    ELSE IF \E e \in Entities : StartsWithAt(s, e.ref, 1)
         THEN LET e == CHOOSE x \in Entities : StartsWithAt(s, x.ref, 1)
              IN  <<e.char>> \o unescape(SubSeq(s, Len(e.ref) + 1, Len(s)))
         ELSE <<Head(s)>> \o unescape(Tail(s))

\* newspaper.text.innerTrim: collapse whitespace runs, drop line breaks, trim.
innerTrim(s) == Strip(CollapseSpaces(s))


-----------------------------------------------------------------------------
(* The document tree and the parser facade (lxml behind newspaper.parsers) *)

InSeq(x, s) == \E i \in 1..Len(s) : s[i] = x

IndexOf(x, s) == CHOOSE i \in 1..Len(s) : s[i] = x

RECURSIVE Concat(_)
Concat(ss) == IF ss = <<>> THEN <<>> ELSE Head(ss) \o Concat(Tail(ss))

\* node.getparent(): the node that holds n among its children, or None.
getparent(t, n) ==
    IF \E m \in DOMAIN t : InSeq(n, t[m].kids)
    THEN CHOOSE m \in DOMAIN t : InSeq(n, t[m].kids)
    ELSE None

\* node.iter(): the node and its descendants in document order.
RECURSIVE iter(_, _)
iter(t, n) == <<n>> \o Concat([i \in 1..Len(t[n].kids) |-> iter(t, t[n].kids[i])])

\* The descendants of a node in document order; none for an absent node.
descendants(t, n) == IF n = None THEN <<>> ELSE Tail(iter(t, n))

\* parser.getChildren
getChildren(t, n) == IF n = None THEN <<>> ELSE t[n].kids

\* parser.getTag
getTag(t, n) == t[n].tag

\* parser.css_select(node, "*[gravityScore]"): the descendants that carry
\* the attribute, in document order.
NoAttr == "<absent>"

css_select_gravityScore(t, n) ==
    LET Has(c) == t[c].score # NoAttr
    IN  SelectSeq(descendants(t, n), Has)

\* parser.getAttribute(item, 'gravityScore')
getAttribute_gravityScore(t, n) == t[n].score

\* parser.getElementsByTag(node, tag=tag): the descendants with that tag.
getElementsByTag(t, n, tag) ==
    LET Is(c) == t[c].tag = tag
    IN  SelectSeq(descendants(t, n), Is)

\* parser.getElementsByTags(node, ['*']): every descendant.
getElementsByTags_all(t, n) == descendants(t, n)

\* node.itertext(): the text of the node, then for each child its own
\* itertext followed by its tail.
RECURSIVE itertext(_, _)
itertext(t, n) ==
    (IF t[n].text = <<>> THEN <<>> ELSE <<t[n].text>>)
    \o Concat([i \in 1..Len(t[n].kids) |->
                  itertext(t, t[n].kids[i])
                  \o (IF t[t[n].kids[i]].tail = <<>> THEN <<>>
                      ELSE <<t[t[n].kids[i]].tail>>)])

\* parser.getText: the accumulated text of the node and its descendants.
getText(t, n) == innerTrim(Strip(Join(itertext(t, n), <<" ">>)))

\* Detaching a node: it leaves its parent's children, its subtree goes
\* with it.  parser.remove(node) and item.getparent().remove(item).
remove(t, n) ==
    LET p == getparent(t, n)
        NotN(c) == c # n
    IN  IF p = None THEN t
        ELSE [t EXCEPT ![p].kids = SelectSeq(@, NotN)]

\* Unwrapping one element: its text, its children and its tail take its
\* place inside its parent, in that order.
Unwrap(t, el) ==
    LET p    == getparent(t, el)
        i    == IndexOf(el, t[p].kids)
        ks   == t[el].kids
        lead == IF ks = <<>> THEN t[el].text \o t[el].tail ELSE t[el].text
        t1   == IF i > 1
                THEN [t EXCEPT ![t[p].kids[i - 1]].tail = @ \o lead]
                ELSE [t EXCEPT ![p].text = @ \o lead]
        t2   == IF ks = <<>> THEN t1
                ELSE [t1 EXCEPT ![ks[Len(ks)]].tail = @ \o t[el].tail]
    IN  [t2 EXCEPT ![p].kids = SubSeq(@, 1, i - 1) \o ks \o SubSeq(@, i + 1, Len(@)),
                   ![el].kids = <<>>,
                   ![el].text = <<>>,
                   ![el].tail = <<>>]

\* parser.stripTags(node, *tags): unwrap every descendant with one of the
\* tags (lxml.etree.strip_tags).
RECURSIVE stripTags(_, _, _)
stripTags(t, n, tags) ==
    LET Is(c) == t[c].tag \in tags
        hits  == SelectSeq(descendants(t, n), Is)
    IN  IF hits = <<>> THEN t ELSE stripTags(Unwrap(t, Head(hits)), n, tags)

\* parser.nodeToString(parser.clean_article_html(node)): the markup of the
\* subtree, as a sequence of tokens.
RECURSIVE nodeToString(_, _)
nodeToString(t, n) ==
    IF n = None THEN <<>>
    ELSE <<"<", t[n].tag, ">">> \o t[n].text
         \o Concat([i \in 1..Len(t[n].kids) |->
                       nodeToString(t, t[n].kids[i]) \o t[t[n].kids[i]].tail])
         \o <<"</", t[n].tag, ">">>

-----------------------------------------------------------------------------
(* NodeTextExclusion                                                       *)

EXCLUDED_TAGS == {"figure", "figcaption"}

AD_CLASSES == {"js_ad-mobile-dynamic", "js_ad-dynamic", "ad-mobile-dynamic", "movable-ad"}

OBJECT_DESCRIPTIONS == {"bold", "detailImageDesc", "credits"}

PrevNext == <<"p", "r", "e", "v", "n", "e", "x", "t">>

PrevNextPost ==
    <<"«", " ", "p", "r", "e", "v", "i", "o", "u", "s", " ", "p", "o", "s", "t",
      " ", "|", " ", "n", "e", "x", "t", " ", "p", "o", "s", "t", " ", "»">>

PAGE_NAVIGATION == {PrevNextPost, PrevNext}

IGNORED_CLASSES == {"audioplayer_container", "postfeedback"}

Permalink == <<"P", "e", "r", "m", "a", "l", "i", "n", "k">>

ShareLink == <<"S", "h", "a", "r", "e", " ", "l", "i", "n", "k">>

\* IGNORED_TEXT.search(s) for the pattern 'Permalink|(Share link)'
IGNORED_TEXT_search(s) == Contains(s, Permalink) \/ Contains(s, ShareLink)

has_ignored_class(t, n) == t[n].classes \cap IGNORED_CLASSES # {}

has_ads(t, n) == t[n].tag = "div" /\ t[n].classes \cap AD_CLASSES # {}

looks_like_object_description(t, n) ==
    t[n].tag = "span" /\ t[n].classes \cap OBJECT_DESCRIPTIONS # {}

looks_like_page_navigation(t, n) ==
    \/ Strip(t[n].text) \in PAGE_NAVIGATION
    \/ t[n].tag = "p" /\ t[n].id \in PAGE_NAVIGATION

\* "if parent and ...": an element is true when it has children.
is_tag_excluded(t, n) ==
    \/ t[n].tag \in EXCLUDED_TAGS
    \/ LET parent == getparent(t, n)
       IN  /\ parent # None
           /\ t[parent].kids # <<>>
           /\ t[parent].tag \in EXCLUDED_TAGS

ignored_by_content(t, n) ==
    IF t[n].text # <<>> THEN IGNORED_TEXT_search(t[n].text) ELSE FALSE

is_excluded(t, n) ==
    \/ is_tag_excluded(t, n)
    \/ has_ads(t, n)
    \/ looks_like_object_description(t, n)
    \/ looks_like_page_navigation(t, n)
    \/ has_ignored_class(t, n)
    \/ ignored_by_content(t, n)

-----------------------------------------------------------------------------
(* NodeTextExtractor                                                       *)

\* parts_of splitting at real line breaks instead of the marker.
parts_of_line_break(text_element, ttl) ==
    LET Keep(part) == part # <<>> /\ ~(ttl # <<>> /\ part = ttl)
    IN  SelectSeq(Split(text_element, <<"\n">>), Keep)

\* filter(None, text_element.split(r'\n')) without the parts equal to the
\* title.
parts_of(text_element, ttl) ==
    LET Keep(part) == part # <<>> /\ ~(ttl # <<>> /\ part = ttl)
    IN  SelectSeq(Split(text_element, NewlineMarker), Keep)

\* The nodes extract_text(node, title) takes text from: filtered_nodes
\* restricted to those with text.
text_nodes(t, node) ==
    LET NotExcluded(c) == ~is_excluded(t, c)
        HasText(c)     == t[c].text # <<>>
    IN  SelectSeq(SelectSeq(iter(t, node), NotExcluded), HasText)

\* The fragments extract_text(node, title) yields, in order.
extract_text(t, node, ttl) ==
    IF is_excluded(t, node) THEN <<>>
    ELSE LET with_text     == text_nodes(t, node)
             text_elements == [i \in 1..Len(with_text) |->
                                  innerTrim(unescape(t[with_text[i]].text))]
         IN  Concat([i \in 1..Len(text_elements) |-> parts_of(text_elements[i], ttl)])

\* chain.from_iterable over the children of the top node.
flattened_elements(t, top, ttl) ==
    Concat([i \in 1..Len(t[top].kids) |-> extract_text(t, t[top].kids[i], ttl)])

\* kept_elements keeping the first fragment only when it has more than
\* one word.
kept_elements_more_than_one(t, top, ttl) ==
    LET flat == flattened_elements(t, top, ttl)
    IN  IF flat = <<>> THEN <<>>
        ELSE (IF WordCount(Head(flat)) > 1 THEN <<Head(flat)>> ELSE <<>>) \o Tail(flat)

\* The fragments convert_to_text joins: the first one only when it is not
\* a single word.
kept_elements(t, top, ttl) ==
    LET flat == flattened_elements(t, top, ttl)
    IN  IF flat = <<>> THEN <<>>
        ELSE LET first_element == Head(flat)
                 elements == IF first_element # <<>> /\ WordCount(first_element) # 1
                             THEN <<first_element>> ELSE <<>>
             IN  elements \o Tail(flat)

\* OutputFormatter.convert_to_text for a top node that is not None.
convert_to_text(t, top, ttl) == Join(kept_elements(t, top, ttl), ParagraphBreak)

-----------------------------------------------------------------------------
(* The cleanup passes of OutputFormatter                                   *)

\* The gravityScore strings float() accepts; every other non-empty string
\* makes it raise a ValueError.
float_accepts(s) == s \in {"0.4", "1", "2.5"}

\* float(s), in tenths.
float(s) ==
    CASE s = "0.4" -> 4
      [] s = "1"   -> 10
      [] s = "2.5" -> 25

\* "float(score) if score else 0"
score_of(s) == IF s # "" THEN float(s) ELSE 0

\* below_one taking "negative" literally: "score < 0".
below_zero(v) == v < 0

\* "score < 1", on tenths.
below_one(v) == v < 10

\* The loop of remove_negativescores_nodes over the selected items; it
\* stops with a ValueError at the first score float() rejects.
RECURSIVE prune_items(_, _)
prune_items(t, items) ==
    IF items = <<>> THEN [tree |-> t, err |-> ""]
    ELSE LET item  == Head(items)
             score == getAttribute_gravityScore(t, item)
         IN  IF score # "" /\ ~float_accepts(score)
             THEN [tree |-> t, err |-> "ValueError"]
             ELSE prune_items(IF below_one(score_of(score)) THEN remove(t, item) ELSE t,
                              Tail(items))

remove_negativescores_nodes(t, top) ==
    prune_items(t, css_select_gravityScore(t, top))

links_to_text(t, top) == IF top = None THEN t ELSE stripTags(t, top, {"a"})

RECURSIVE set_br_text(_, _)
set_br_text(t, es) ==
    IF es = <<>> THEN t
    ELSE set_br_text([t EXCEPT ![Head(es)].text = NewlineMarker], Tail(es))

add_newline_to_br(t, top) == set_br_text(t, getElementsByTag(t, top, "br"))

RECURSIVE remove_all(_, _)
remove_all(t, cs) ==
    IF cs = <<>> THEN t ELSE remove_all(remove(t, Head(cs)), Tail(cs))

\* mark_li without the marker.
mark_li_no_marker(t, li) ==
    LET t1 == [t EXCEPT ![li].text = getText(t, li)]
    IN  remove_all(t1, getChildren(t1, li))

\* The body of the inner loop: one li gets its accumulated text and the
\* marker, and loses its children.
mark_li(t, li) ==
    LET t1 == [t EXCEPT ![li].text = getText(t, li) \o NewlineMarker]
    IN  remove_all(t1, getChildren(t1, li))

RECURSIVE mark_lis(_, _)
mark_lis(t, lis) ==
    IF lis = <<>> THEN t ELSE mark_lis(mark_li(t, Head(lis)), Tail(lis))

\* mark_uls over every li, the last one included.
RECURSIVE mark_uls_all(_, _)
mark_uls_all(t, uls) ==
    IF uls = <<>> THEN t
    ELSE mark_uls_all(mark_lis(t, getElementsByTag(t, Head(uls), "li")), Tail(uls))

\* The outer loop: for each ul found at the start, every li below it
\* except the last.
RECURSIVE mark_uls(_, _)
mark_uls(t, uls) ==
    IF uls = <<>> THEN t
    ELSE LET li_list == getElementsByTag(t, Head(uls), "li")
         IN  mark_uls(mark_lis(t, SubSeq(li_list, 1, Len(li_list) - 1)), Tail(uls))

add_newline_to_li_all(t, top) == mark_uls_all(t, getElementsByTag(t, top, "ul"))

add_newline_to_li(t, top) == mark_uls(t, getElementsByTag(t, top, "ul"))

replace_with_text(t, top) ==
    IF top = None THEN t ELSE stripTags(t, top, {"b", "strong", "i", "br", "sup"})

Reverse(s) == [i \in 1..Len(s) |-> s[Len(s) + 1 - i]]

\* The test of remove_empty_tags on one element.
is_empty_tag(t, el) ==
    LET tag == getTag(t, el)
        txt == getText(t, el)
    IN  /\ (tag # "br" \/ txt # ReturnMarker)
        /\ txt = <<>>
        /\ Len(getElementsByTag(t, el, "object")) = 0
        /\ Len(getElementsByTag(t, el, "embed")) = 0

RECURSIVE prune_empty(_, _)
prune_empty(t, els) ==
    IF els = <<>> THEN t
    ELSE prune_empty(IF is_empty_tag(t, Head(els)) THEN remove(t, Head(els)) ELSE t,
                     Tail(els))

remove_empty_tags(t, top) == prune_empty(t, Reverse(getElementsByTags_all(t, top)))

RECURSIVE get_depth(_, _, _)
get_depth(t, node, depth) ==
    LET children == getChildren(t, node)
        ds == {get_depth(t, children[i], depth + 1) : i \in 1..Len(children)}
    IN  IF children = <<>> THEN depth
        ELSE CHOOSE d \in ds : \A e \in ds : e <= d

\* remove_trailing_media_div asking for 2 direct children instead of 3.
remove_trailing_media_div_two(t, top) ==
    LET top_level_nodes == getChildren(t, top)
    IN  IF Len(top_level_nodes) < 2 THEN t
        ELSE LET last_node == top_level_nodes[Len(top_level_nodes)]
             IN  IF get_depth(t, last_node, 1) >= 2 THEN remove(t, last_node) ELSE t

remove_trailing_media_div(t, top) ==
    LET top_level_nodes == getChildren(t, top)
    IN  IF Len(top_level_nodes) < 3 THEN t
        ELSE LET last_node == top_level_nodes[Len(top_level_nodes)]
             IN  IF get_depth(t, last_node, 1) >= 2 THEN remove(t, last_node) ELSE t

-----------------------------------------------------------------------------
(* Documents                                                               *)

\* The ordered trees with n nodes below the top node, as parent vectors:
\* nodes are numbered in document order, so the parent of node i is node
\* i - 1 or one of its ancestors.
RECURSIVE RightPath(_, _)
RightPath(p, j) == IF j = 0 THEN {0} ELSE {j} \cup RightPath(p, p[j])

RECURSIVE Shapes(_)
Shapes(n) ==
    IF n = 0 THEN {<<>>}
    ELSE {Append(p, q) : <<p, q>> \in
             {<<p, q>> \in Shapes(n - 1) \X (0..(n - 1)) : q \in RightPath(p, n - 1)}}

KidsOf(p, i) ==
    LET IsKid(j) == p[j] = i
    IN  SelectSeq([j \in 1..Len(p) |-> j], IsKid)

Kind(tag, classes, score, txt, tail) ==
    [tag |-> tag, classes |-> classes, id |-> <<>>, score |-> score,
     text |-> txt, tail |-> tail]

WithKids(k, kids) ==
    [tag |-> k.tag, classes |-> k.classes, id |-> k.id, score |-> k.score,
     text |-> k.text, tail |-> k.tail, kids |-> kids]

\* The top node: a div without text of its own.
TopKind == Kind("div", {}, NoAttr, <<>>, <<>>)

Document(p, kinds) ==
    [i \in 0..Len(p) |->
        WithKids(IF i = 0 THEN TopKind ELSE kinds[i], KidsOf(p, i))]

Documents(maxNodes, Kinds) ==
    UNION {{Document(p, kinds) : <<p, kinds>> \in Shapes(n) \X [1..n -> Kinds]}
           : n \in 0..maxNodes}

-----------------------------------------------------------------------------
(* get_formatted, one action per step                                      *)

MaxCalls == 2

InitWith(Docs, Args, Titles, Keeps) ==
    /\ tree \in Docs
    /\ arg \in Args
    /\ title \in Titles
    /\ keep \in Keeps
    /\ top_node = None
    /\ pc = "idle"
    /\ calls = 0
    /\ text = <<>>
    /\ html = <<>>
    /\ err = ""
    /\ entry = tree
    /\ prev = tree

\* The entry of get_formatted(top_node, title): top_node is adopted, html
\* and text start empty.
GetFormatted ==
    /\ pc = "idle"
    /\ calls < MaxCalls
    /\ calls' = calls + 1
    /\ top_node' = arg
    /\ html' = <<>>
    /\ text' = <<>>
    /\ entry' = tree
    /\ prev' = tree
    /\ pc' = "remove_negativescores_nodes"
    /\ UNCHANGED <<tree, arg, title, keep, err>>

RemoveNegativescoresNodes ==
    /\ pc = "remove_negativescores_nodes"
    /\ LET r == remove_negativescores_nodes(tree, top_node)
       IN  /\ tree' = r.tree
           /\ err' = r.err
           /\ pc' = IF r.err = "" THEN "convert_to_html" ELSE "raised"
    /\ prev' = tree
    /\ UNCHANGED <<arg, title, keep, top_node, calls, text, html, entry>>

\* "if self.config.keep_article_html: html = self.convert_to_html()"
ConvertToHtml ==
    /\ pc = "convert_to_html"
    /\ html' = IF keep THEN nodeToString(tree, top_node) ELSE html
    /\ pc' = "links_to_text"
    /\ UNCHANGED <<tree, arg, title, keep, top_node, calls, text, err, entry, prev>>

LinksToText ==
    /\ pc = "links_to_text"
    /\ tree' = links_to_text(tree, top_node)
    /\ prev' = tree
    /\ pc' = "add_newline_to_br"
    /\ UNCHANGED <<arg, title, keep, top_node, calls, text, html, err, entry>>

AddNewlineToBr ==
    /\ pc = "add_newline_to_br"
    /\ tree' = add_newline_to_br(tree, top_node)
    /\ prev' = tree
    /\ pc' = "add_newline_to_li"
    /\ UNCHANGED <<arg, title, keep, top_node, calls, text, html, err, entry>>

AddNewlineToLi ==
    /\ pc = "add_newline_to_li"
    /\ tree' = add_newline_to_li(tree, top_node)
    /\ prev' = tree
    /\ pc' = "replace_with_text"
    /\ UNCHANGED <<arg, title, keep, top_node, calls, text, html, err, entry>>

ReplaceWithText ==
    /\ pc = "replace_with_text"
    /\ tree' = replace_with_text(tree, top_node)
    /\ prev' = tree
    /\ pc' = "remove_empty_tags"
    /\ UNCHANGED <<arg, title, keep, top_node, calls, text, html, err, entry>>

RemoveEmptyTags ==
    /\ pc = "remove_empty_tags"
    /\ tree' = remove_empty_tags(tree, top_node)
    /\ prev' = tree
    /\ pc' = "remove_trailing_media_div"
    /\ UNCHANGED <<arg, title, keep, top_node, calls, text, html, err, entry>>

RemoveTrailingMediaDiv ==
    /\ pc = "remove_trailing_media_div"
    /\ tree' = remove_trailing_media_div(tree, top_node)
    /\ prev' = tree
    /\ pc' = "convert_to_text"
    /\ UNCHANGED <<arg, title, keep, top_node, calls, text, html, err, entry>>

\* "text = self.convert_to_text(title)" and the return.  Iterating over a
\* top node that is None raises a TypeError (line 176).
ConvertToText ==
    /\ pc = "convert_to_text"
    /\ IF top_node = None
       THEN /\ err' = "TypeError"
            /\ pc' = "raised"
            /\ text' = text
       ELSE /\ err' = err
            /\ pc' = "idle"
            /\ text' = convert_to_text(tree, top_node, title)
    /\ UNCHANGED <<tree, arg, title, keep, top_node, calls, html, entry, prev>>

Next ==
    \/ GetFormatted
    \/ RemoveNegativescoresNodes
    \/ ConvertToHtml
    \/ LinksToText
    \/ AddNewlineToBr
    \/ AddNewlineToLi
    \/ ReplaceWithText
    \/ RemoveEmptyTags
    \/ RemoveTrailingMediaDiv
    \/ ConvertToText

-----------------------------------------------------------------------------
(* Specifications: the same program over different families of documents   *)

MaxNodes == 3
MaxScoreNodes == 3
MaxTextNodes == 3
MaxListNodes == 4
MaxTrailNodes == 6

OneWord == <<"A">>
TwoWords == <<"A", " ", "B">>
BuyNow == <<"B", "u", "y", " ", "n", "o", "w">>

\* "&#92;nB": a backslash written as a character reference, then n and B.
EscapedMarker == <<"&", "#", "9", "2", ";", "n", "B">>

Plain(tag, txt) == Kind(tag, {}, NoAttr, txt, <<>>)

\* Containers with and without text, an ad container, an embedded object.
GeneralKinds ==
    { Plain("div", TwoWords),
      Plain("div", <<>>),
      Kind("div", {"ad-mobile-dynamic"}, NoAttr, BuyNow, <<>>),
      Plain("embed", <<>>) }

\* Containers with every shape of gravityScore attribute.
ScoreKinds ==
    { Kind("div", {}, s, TwoWords, <<>>) : s \in {NoAttr, "", "0.4", "1", "2.5", "abc"} }

\* Paragraphs, forced breaks followed by a space, lists whose items hold
\* an escaped marker.
TextKinds ==
    { Plain("p", OneWord),
      Plain("p", TwoWords),
      Kind("br", {}, NoAttr, <<>>, <<" ">>),
      Plain("ul", <<>>),
      Plain("li", EscapedMarker) }

ListKinds == { Plain("ul", <<>>), Plain("li", OneWord), Plain("li", TwoWords) }

TrailKinds == { Plain("div", TwoWords) }

Init ==
    InitWith(Documents(MaxNodes, GeneralKinds), {None, Top}, {<<>>}, BOOLEAN)

InitScores ==
    InitWith(Documents(MaxScoreNodes, ScoreKinds), {Top}, {<<>>}, {FALSE})

InitText ==
    InitWith(Documents(MaxTextNodes, TextKinds), {Top}, {<<"B">>}, {FALSE})

InitLists ==
    InitWith(Documents(MaxListNodes, ListKinds), {Top}, {<<>>, TwoWords}, {FALSE})

InitTrail ==
    InitWith(Documents(MaxTrailNodes, TrailKinds), {Top}, {<<>>}, {FALSE})

Spec == Init /\ [][Next]_vars

SpecScores == InitScores /\ [][Next]_vars

SpecText == InitText /\ [][Next]_vars

SpecLists == InitLists /\ [][Next]_vars

SpecTrail == InitTrail /\ [][Next]_vars

-----------------------------------------------------------------------------
(* Properties                                                              *)

\* The nodes of the subtree rooted at n.
Subtree(t, n) == {iter(t, n)[i] : i \in 1..Len(iter(t, n))}

\* Whether node n is in the tree below the top node.
Attached(t, n) == InSeq(n, descendants(t, Top))

\* The nodes in the tree below the top node.
Below(t) == {m \in DOMAIN t : Attached(t, m)}

\* get_formatted has returned (text, html).
Returned == pc = "idle" /\ calls > 0

\* The paragraphs of a returned text.
Paragraphs(txt) == IF txt = <<>> THEN <<>> ELSE Split(txt, ParagraphBreak)

RECURSIVE IsSubsequence(_, _)
IsSubsequence(a, b) ==
    IF a = <<>> THEN TRUE
    ELSE IF b = <<>> THEN FALSE
         ELSE IF Head(a) = Head(b) THEN IsSubsequence(Tail(a), Tail(b))
              ELSE IsSubsequence(a, Tail(b))

EndsWith(s, suffix) ==
    Len(s) >= Len(suffix) /\ SubSeq(s, Len(s) - Len(suffix) + 1, Len(s)) = suffix

\* A gravityScore attribute that is present and is not a number.
Malformed(t, n) ==
    t[n].score # NoAttr /\ t[n].score # "" /\ ~float_accepts(t[n].score)

\* A gravityScore attribute worth less than 1 (an empty one counts as 0).
LowScore(t, n) ==
    \/ t[n].score = ""
    \/ float_accepts(t[n].score) /\ float(t[n].score) < 10

\* A gravityScore attribute worth 1 or more.
HighScore(t, n) == float_accepts(t[n].score) /\ float(t[n].score) >= 10

\* C1: a descendant of the top node whose gravityScore is present but is
\* not a number is treated as score 0 and detached by score pruning, and
\* get_formatted does not end in an error.
C1_MalformedScoreIsZero ==
    \A n \in Below(entry) :
        (calls > 0 /\ top_node # None /\ Malformed(entry, n)) =>
            /\ pc # "raised"
            /\ (pc # "remove_negativescores_nodes" => ~Attached(tree, n))

\* C2: get_formatted on a top node without children, or on None, returns
\* ('', '') whatever keep_article_html is, and never ends in an error.
C2_EmptyOrAbsentTop ==
    (calls > 0 /\ (top_node = None \/ entry[Top].kids = <<>>)) =>
        /\ pc # "raised"
        /\ (pc = "idle" => text = <<>> /\ html = <<>>)

\* The passes of a second (or later) call have all run; entry is the tree
\* the call before left.
RerunDone == calls >= 2 /\ pc = "convert_to_text"

\* No pass of the call has removed a node of the tree or changed a text.
NothingMutated ==
    \A n \in Below(entry) : Attached(tree, n) /\ tree[n].text = entry[n].text

\* C3 as stated: running the passes again on the tree a first run left
\* removes no node and changes no node's text.
C3_RerunMutatesNothing == RerunDone => NothingMutated

\* No list with two or more items, and no top node with three or more
\* children whose last child has children.
SettledLists(t) ==
    \A u \in Below(t) : t[u].tag = "ul" => Len(getElementsByTag(t, u, "li")) < 2

SettledTrail(t) ==
    LET kids == t[Top].kids
    IN  Len(kids) < 3 \/ t[kids[Len(kids)]].kids = <<>>

\* C3 amended: running the passes again on the tree a first run left
\* removes no node and changes no node's text, provided that tree holds no
\* list with two or more items and its top node has fewer than three
\* children or a last child without children.
C3_RerunMutatesNothingWhenSettled ==
    (RerunDone /\ SettledLists(entry) /\ SettledTrail(entry)) => NothingMutated

C3_Witness ==
    /\ RerunDone
    /\ SettledLists(entry)
    /\ SettledTrail(entry)
    /\ \E u \in Below(entry) : entry[u].tag = "ul" /\ Len(getElementsByTag(entry, u, "li")) = 1
    /\ NothingMutated

\* The text of node m reached the returned text: extract_text took text
\* from m, and a part of it is a paragraph of the result.
Yielded(m) ==
    /\ \E i \in 1..Len(tree[Top].kids) : InSeq(m, text_nodes(tree, tree[Top].kids[i]))
    /\ LET parts == parts_of(innerTrim(unescape(tree[m].text)), title)
       IN  \E j \in 1..Len(parts) : InSeq(parts[j], Paragraphs(text))

\* C4: when get_formatted returns, no node below the top node for which
\* is_excluded holds, and no node of its subtree, has its text in the
\* returned text.
C4_ExcludedSubtreeAbsent ==
    (Returned /\ top_node # None) =>
        \A n \in Below(tree) :
            is_excluded(tree, n) => \A m \in Subtree(tree, n) : ~Yielded(m)

\* The fragments convert_to_text had before it, and the result it must
\* give when the first fragment is kept or dropped.
Flat == flattened_elements(tree, Top, title)

FirstKept == Paragraphs(text) = Flat

FirstDropped == Paragraphs(text) = Tail(Flat)

\* C5 as stated: the first fragment is kept exactly when it has more than
\* one word, every later fragment is kept in order, and the kept
\* fragments are joined by blank lines.
C5_FirstKeptIffSeveralWords ==
    (Returned /\ top_node # None) =>
        IF Flat = <<>> THEN text = <<>>
        ELSE IF WordCount(Head(Flat)) > 1 THEN FirstKept ELSE FirstDropped

\* C5 amended: the first fragment is dropped exactly when it is a single
\* word; a first fragment without any word (whitespace only) is kept like
\* one with several words.  Every later fragment is kept in order, and
\* the kept fragments are joined by blank lines.
C5_FirstDroppedIffSingleWord ==
    (Returned /\ top_node # None) =>
        IF Flat = <<>> THEN text = <<>>
        ELSE /\ IF WordCount(Head(Flat)) = 1 THEN FirstDropped ELSE FirstKept
             /\ ~EndsWith(text, ParagraphBreak)

C5_Witness ==
    /\ Returned
    /\ top_node # None
    /\ Flat # <<>>
    /\ WordCount(Head(Flat)) = 0
    /\ Paragraphs(text) = Flat

\* The list-item pass has just run.
ListsMarked == pc = "replace_with_text"

\* Every item but the last of every list that was below the top node has
\* a text ending in the marker, and no children.
ItemsMarked ==
    \A u \in Below(prev) :
        prev[u].tag = "ul" =>
            LET li_list == getElementsByTag(prev, u, "li")
            IN  \A i \in 1..(Len(li_list) - 1) :
                    /\ EndsWith(tree[li_list[i]].text, NewlineMarker)
                    /\ tree[li_list[i]].kids = <<>>

\* A text that normalisation and splitting leave as it is.
PlainText(s) ==
    s # <<>> /\ innerTrim(unescape(s)) = s /\ ~Contains(s, NewlineMarker)

\* The top node holds one list and nothing else; its items have no
\* children, carry plain texts other than the title, and nothing about
\* them makes a pass or the extractor drop them.
ListOnly(t) ==
    /\ Len(t[Top].kids) = 1
    /\ LET u == t[Top].kids[1]
       IN  /\ t[u].tag = "ul"
           /\ t[u].text = <<>>
           /\ t[u].score = NoAttr
           /\ ~is_excluded(t, u)
           /\ Len(t[u].kids) >= 2
           /\ \A i \in 1..Len(t[u].kids) :
                  LET li == t[u].kids[i]
                  IN  /\ t[li].tag = "li"
                      /\ t[li].kids = <<>>
                      /\ t[li].score = NoAttr
                      /\ PlainText(t[li].text)
                      /\ t[li].text # title
                      /\ ~is_excluded(t, li)

ItemTexts(t) ==
    LET u == t[Top].kids[1]
    IN  [i \in 1..Len(t[u].kids) |-> t[t[u].kids[i]].text]

\* C6 as stated: after list-item normalisation every item except the last
\* ends in the marker and has no children, and the returned text contains
\* the items' texts as paragraphs in item order.
C6_ItemsAreParagraphs ==
    /\ ListsMarked => ItemsMarked
    /\ (Returned /\ top_node # None /\ ListOnly(entry)) =>
           IsSubsequence(ItemTexts(entry), Paragraphs(text))

\* C6 amended: after list-item normalisation every item except the last
\* ends in the marker and has no children; when the list is all the top
\* node holds, the returned text is made of the items' texts as paragraphs
\* in item order, without the first item's text when that is a single
\* word (for items A, B, C: the paragraphs B and C).
C6_ItemsAreParagraphsButSingleWordFirst ==
    /\ ListsMarked => ItemsMarked
    /\ (Returned /\ top_node # None /\ ListOnly(entry)) =>
           LET items == ItemTexts(entry)
           IN  Paragraphs(text) =
                   IF WordCount(Head(items)) = 1 THEN Tail(items) ELSE items

C6_Witness ==
    /\ Returned
    /\ top_node # None
    /\ ListOnly(entry)
    /\ Len(ItemTexts(entry)) = 3
    /\ WordCount(Head(ItemTexts(entry))) = 1
    /\ Paragraphs(text) = Tail(ItemTexts(entry))

\* Score pruning has just run to its end.
ScoresPruned == pc = "convert_to_html"

\* n lies inside the subtree of another descendant of the top node whose
\* score is below 1.
InsideLowScore(t, n) ==
    \E a \in Below(t) : a # n /\ n \in Subtree(t, a) /\ LowScore(t, a)

\* C7 as stated: when score pruning ends, every descendant that carried a
\* score below 1 is detached with its subtree, and every descendant that
\* carried a score of 1 or more is still below the top node, wherever it
\* sat.
C7_PrunedByOwnScore ==
    ScoresPruned =>
        \A n \in Below(prev) :
            /\ LowScore(prev, n) => \A m \in Subtree(prev, n) : ~Attached(tree, m)
            /\ HighScore(prev, n) => Attached(tree, n)

\* C7 amended: when score pruning ends, every descendant that carried a
\* score below 1 is detached with its subtree, and every descendant that
\* carried a score of 1 or more is still below the top node unless it sat
\* inside the subtree of a descendant with a score below 1.
C7_PrunedByOwnOrAncestorScore ==
    ScoresPruned =>
        \A n \in Below(prev) :
            /\ LowScore(prev, n) => \A m \in Subtree(prev, n) : ~Attached(tree, m)
            /\ HighScore(prev, n) => (Attached(tree, n) <=> ~InsideLowScore(prev, n))

C7_Witness ==
    /\ ScoresPruned
    /\ \E n \in Below(prev) :
          /\ prev[n].score = "0.4"
          /\ ~Attached(tree, n)
          /\ \E m \in Subtree(prev, n) : prev[m].score = "2.5"
    /\ \E n \in Below(prev) : prev[n].score = "2.5" /\ Attached(tree, n)

\* C8: no fragment extract_text yields from the tree, and no paragraph of
\* a returned text, contains the newline marker.
C8_NoMarkerInFragments ==
    LET flat  == Flat
        paras == Paragraphs(text)
    IN  /\ \A i \in 1..Len(flat) : ~Contains(flat[i], NewlineMarker)
        /\ Returned => \A i \in 1..Len(paras) : ~Contains(paras[i], NewlineMarker)

C8_Witness ==
    /\ Returned
    /\ text # <<>>
    /\ \E n \in Below(tree) :
          /\ Contains(tree[n].text, NewlineMarker)
          /\ Yielded(n)

\* The depth of the subtree of n: 1 for a node without children.
RECURSIVE Height(_, _)
Height(t, n) ==
    LET hs == {Height(t, t[n].kids[i]) : i \in 1..Len(t[n].kids)}
    IN  IF hs = {} THEN 1 ELSE 1 + CHOOSE h \in hs : \A g \in hs : g <= h

\* The trailing media trim has just run.
TrailTrimmed == pc = "convert_to_text" /\ top_node # None

\* C9: the trailing media trim removes the last child of the top node
\* exactly when the top node has at least 3 children and that child's
\* subtree has depth 2 or more, that is when it has a child; it changes
\* nothing else, and nothing at all otherwise.
C9_TrailingTrimFrame ==
    TrailTrimmed =>
        LET kids == prev[Top].kids
            last == kids[Len(kids)]
        IN  IF Len(kids) >= 3 /\ Height(prev, last) >= 2
            THEN /\ prev[last].kids # <<>>
                 /\ tree = [prev EXCEPT ![Top].kids = SubSeq(kids, 1, Len(kids) - 1)]
            ELSE tree = prev

C9_Witness ==
    /\ TrailTrimmed
    /\ Len(prev[Top].kids) = 4
    /\ Height(prev, prev[Top].kids[4]) = 3
    /\ Len(tree[Top].kids) = 3

\* Empty-tag pruning has just run.
EmptyPruned == pc = "remove_trailing_media_div"

\* C10: a descendant of the top node that has no text but has an object or
\* embed element among its descendants when empty-tag pruning starts is
\* still in the tree when the pass ends.
C10_MediaContainerKept ==
    EmptyPruned =>
        \A n \in Below(prev) :
            ( /\ getText(prev, n) = <<>>
              /\ Len(getElementsByTag(prev, n, "object"))
                   + Len(getElementsByTag(prev, n, "embed")) > 0 )
            => Attached(tree, n)

=============================================================================
